---- MODULE Spec2Model ----
(***************************************************************************)
(* The `devenv` provisioning run of nixpacks (src/main.rs, Commands::Devenv)*)
(* and the helpers it calls: to_home_manager_nix, is_git_repo and          *)
(* get_git_remote_url.  Text (the rendered configuration, command lines,   *)
(* paths, package identifiers, URLs) is a sequence of one-character        *)
(* strings, so that filtering, formatting and parsing are computed.        *)
(***************************************************************************)
EXTENDS Integers, Sequences, FiniteSets, TLC

VARIABLES
    pc,                  \* position of main in the Devenv arm
    packages,            \* plan.get_packages(): the PackageList
    planOk,              \* generate_build_plan succeeds
    isRepo,              \* <path>/.git exists
    origin,              \* what git2 finds for the remote "origin"
    keyFileExists,       \* the private key file exists locally
    home_manager_config, \* the rendered configuration text
    private_key,         \* the content read from the key file
    git_remote_url,      \* the URL get_git_remote_url returned
    tcp,                 \* the TcpStream: "none", "open", "closed"
    sess,                \* the ssh2 Session
    channels,            \* the channels opened on the session, in order
    steps,               \* the run states reached, in order
    log,                 \* the fallible operations attempted, in order
    failure,             \* the failing step and its cause, or NoFailure
    exitCode             \* << >> while running, then << the exit code >>

vars == << pc, packages, planOk, isRepo, origin, keyFileExists,
           home_manager_config, private_key, git_remote_url, tcp, sess,
           channels, steps, log, failure, exitCode >>

----------------------------------------------------------------------------
(* Bounds of the model. *)

\* longest PackageList the renderer is applied to
MaxPkgs == 3

----------------------------------------------------------------------------
(* Literals of the program. *)

\* main.rs:263
InstallCmd ==
    << "n", "i", "x", "-", "s", "h", "e", "l", "l", " ", "'", "<", "h", "o", "m", "e",
       "-", "m", "a", "n", "a", "g", "e", "r", ">", "'", " ", "-", "A", " ", "i", "n",
       "s", "t", "a", "l", "l" >>

\* main.rs:298, the text of the format string before its {}
CloneCmdPrefix == << "g", "i", "t", " ", "c", "l", "o", "n", "e", " " >>

\* main.rs:255
ConfigPath ==
    << "/", "h", "o", "m", "e", "/", "u", "b", "u", "n", "t", "u", "/", ".", "c", "o",
       "n", "f", "i", "g", "/", "h", "o", "m", "e", "-", "m", "a", "n", "a", "g", "e",
       "r", "/", "h", "o", "m", "e", ".", "n", "i", "x" >>

\* main.rs:275
KeyPath ==
    << "/", "h", "o", "m", "e", "/", "u", "b", "u", "n", "t", "u", "/", ".", "s", "s",
       "h", "/", "i", "d", "_", "r", "s", "a" >>

\* main.rs:402, the pattern of the filter
NpmPattern == << "n", "p", "m" >>

\* main.rs:427, the text of the format string before and after the package
LinePrefix == << " ", " ", " ", " ", " ", " ", " ", " " >>
LineSuffix == << " ", "\n" >>

\* main.rs:429
BlockClose == << " ", " ", " ", " ", "]", ";", "\n", "}", "\n" >>

\* main.rs:403-424, the initial value of text, one definition per source line
PreambleL403 ==
    << "\n" >>
PreambleL404 ==
    << " ", " ", " ", " ", "{", " ", "c", "o", "n", "f", "i", "g", ",", " ", "p", "k",
       "g", "s", ",", " ", "l", "i", "b", ",", " ", ".", ".", ".", " ", "}", ":", "\n" >>
PreambleL405 ==
    << "\n" >>
PreambleL406 ==
    << " ", " ", " ", " ", "{", "\n" >>
PreambleL407 ==
    << " ", " ", " ", " ", " ", " ", "#", " ", "H", "o", "m", "e", " ", "M", "a", "n",
       "a", "g", "e", "r", " ", "n", "e", "e", "d", "s", " ", "a", " ", "b", "i", "t",
       " ", "o", "f", " ", "i", "n", "f", "o", "r", "m", "a", "t", "i", "o", "n", " ",
       "a", "b", "o", "u", "t", " ", "y", "o", "u", " ", "a", "n", "d", " ", "t", "h",
       "e", " ", "p", "a", "t", "h", "s", " ", "i", "t", " ", "s", "h", "o", "u", "l",
       "d", "\n" >>
PreambleL408 ==
    << " ", " ", " ", " ", " ", " ", "#", " ", "m", "a", "n", "a", "g", "e", ".", "\n" >>
PreambleL409 ==
    << " ", " ", " ", " ", " ", " ", "h", "o", "m", "e", ".", "u", "s", "e", "r", "n",
       "a", "m", "e", " ", "=", " ", "\"", "u", "b", "u", "n", "t", "u", "\"", ";", "\n" >>
PreambleL410 ==
    << " ", " ", " ", " ", " ", " ", "h", "o", "m", "e", ".", "h", "o", "m", "e", "D",
       "i", "r", "e", "c", "t", "o", "r", "y", " ", "=", " ", "\"", "/", "h", "o", "m",
       "e", "/", "u", "b", "u", "n", "t", "u", "\"", ";", "\n" >>
PreambleL411 ==
    << " ", " ", " ", " ", "\n" >>
PreambleL412 ==
    << " ", " ", " ", " ", " ", " ", "#", " ", "T", "h", "i", "s", " ", "v", "a", "l",
       "u", "e", " ", "d", "e", "t", "e", "r", "m", "i", "n", "e", "s", " ", "t", "h",
       "e", " ", "H", "o", "m", "e", " ", "M", "a", "n", "a", "g", "e", "r", " ", "r",
       "e", "l", "e", "a", "s", "e", " ", "t", "h", "a", "t", " ", "y", "o", "u", "r",
       " ", "c", "o", "n", "f", "i", "g", "u", "r", "a", "t", "i", "o", "n", " ", "i",
       "s", "\n" >>
PreambleL413 ==
    << " ", " ", " ", " ", " ", " ", "#", " ", "c", "o", "m", "p", "a", "t", "i", "b",
       "l", "e", " ", "w", "i", "t", "h", ".", " ", "T", "h", "i", "s", " ", "h", "e",
       "l", "p", "s", " ", "a", "v", "o", "i", "d", " ", "b", "r", "e", "a", "k", "a",
       "g", "e", " ", "w", "h", "e", "n", " ", "a", " ", "n", "e", "w", " ", "H", "o",
       "m", "e", " ", "M", "a", "n", "a", "g", "e", "r", " ", "r", "e", "l", "e", "a",
       "s", "e", "\n" >>
PreambleL414 ==
    << " ", " ", " ", " ", " ", " ", "#", " ", "i", "n", "t", "r", "o", "d", "u", "c",
       "e", "s", " ", "b", "a", "c", "k", "w", "a", "r", "d", "s", " ", "i", "n", "c",
       "o", "m", "p", "a", "t", "i", "b", "l", "e", " ", "c", "h", "a", "n", "g", "e",
       "s", ".", "\n" >>
PreambleL415 ==
    << " ", " ", " ", " ", " ", " ", "#", "\n" >>
PreambleL416 ==
    << " ", " ", " ", " ", " ", " ", "#", " ", "Y", "o", "u", " ", "s", "h", "o", "u",
       "l", "d", " ", "n", "o", "t", " ", "c", "h", "a", "n", "g", "e", " ", "t", "h",
       "i", "s", " ", "v", "a", "l", "u", "e", ",", " ", "e", "v", "e", "n", " ", "i",
       "f", " ", "y", "o", "u", " ", "u", "p", "d", "a", "t", "e", " ", "H", "o", "m",
       "e", " ", "M", "a", "n", "a", "g", "e", "r", ".", " ", "I", "f", " ", "y", "o",
       "u", " ", "d", "o", "\n" >>
PreambleL417 ==
    << " ", " ", " ", " ", " ", " ", "#", " ", "w", "a", "n", "t", " ", "t", "o", " ",
       "u", "p", "d", "a", "t", "e", " ", "t", "h", "e", " ", "v", "a", "l", "u", "e",
       ",", " ", "t", "h", "e", "n", " ", "m", "a", "k", "e", " ", "s", "u", "r", "e",
       " ", "t", "o", " ", "f", "i", "r", "s", "t", " ", "c", "h", "e", "c", "k", " ",
       "t", "h", "e", " ", "H", "o", "m", "e", " ", "M", "a", "n", "a", "g", "e", "r",
       "\n" >>
PreambleL418 ==
    << " ", " ", " ", " ", " ", " ", "#", " ", "r", "e", "l", "e", "a", "s", "e", " ",
       "n", "o", "t", "e", "s", ".", "\n" >>
PreambleL419 ==
    << " ", " ", " ", " ", " ", " ", "h", "o", "m", "e", ".", "s", "t", "a", "t", "e",
       "V", "e", "r", "s", "i", "o", "n", " ", "=", " ", "\"", "2", "3", ".", "0", "5",
       "\"", ";", " ", "#", " ", "P", "l", "e", "a", "s", "e", " ", "r", "e", "a", "d",
       " ", "t", "h", "e", " ", "c", "o", "m", "m", "e", "n", "t", " ", "b", "e", "f",
       "o", "r", "e", " ", "c", "h", "a", "n", "g", "i", "n", "g", ".", "\n" >>
PreambleL420 ==
    << " ", " ", " ", " ", "\n" >>
PreambleL421 ==
    << " ", " ", " ", " ", " ", " ", "#", " ", "T", "h", "e", " ", "h", "o", "m", "e",
       ".", "p", "a", "c", "k", "a", "g", "e", "s", " ", "o", "p", "t", "i", "o", "n",
       " ", "a", "l", "l", "o", "w", "s", " ", "y", "o", "u", " ", "t", "o", " ", "i",
       "n", "s", "t", "a", "l", "l", " ", "N", "i", "x", " ", "p", "a", "c", "k", "a",
       "g", "e", "s", " ", "i", "n", "t", "o", " ", "y", "o", "u", "r", "\n" >>
PreambleL422 ==
    << " ", " ", " ", " ", " ", " ", "#", " ", "e", "n", "v", "i", "r", "o", "n", "m",
       "e", "n", "t", ".", "\n" >>
PreambleL423 ==
    << " ", " ", " ", " ", " ", " ", "h", "o", "m", "e", ".", "p", "a", "c", "k", "a",
       "g", "e", "s", " ", "=", " ", "w", "i", "t", "h", " ", "p", "k", "g", "s", ";",
       " ", "[", " ", "\n" >>
Preamble ==
    PreambleL403
    \o PreambleL404
    \o PreambleL405
    \o PreambleL406
    \o PreambleL407
    \o PreambleL408
    \o PreambleL409
    \o PreambleL410
    \o PreambleL411
    \o PreambleL412
    \o PreambleL413
    \o PreambleL414
    \o PreambleL415
    \o PreambleL416
    \o PreambleL417
    \o PreambleL418
    \o PreambleL419
    \o PreambleL420
    \o PreambleL421
    \o PreambleL422
    \o PreambleL423

----------------------------------------------------------------------------
(* to_home_manager_nix, main.rs:400-432. *)

\* str::contains with a non-empty pattern: pat occurs in s as a substring
Contains(s, pat) ==
    \E i \in 1..(Len(s) - Len(pat) + 1) : SubSeq(s, i, i + Len(pat) - 1) = pat

\* FilterNpm as it would be if only a leading "npm" were recognized
FilterNpmPrefix(pkgs) ==
    SelectSeq(pkgs, LAMBDA p : ~(Len(p) >= Len(NpmPattern)
                                  /\ SubSeq(p, 1, Len(NpmPattern)) = NpmPattern))

\* main.rs:402: packages.into_iter().filter(|p| !p.contains("npm")).collect()
FilterNpm(pkgs) == SelectSeq(pkgs, LAMBDA p : ~Contains(p, NpmPattern))

\* AppendPackages as it would be if a package listed again later were skipped
RECURSIVE AppendPackagesDedup(_, _)
AppendPackagesDedup(text, pkgs) ==
    IF pkgs = << >>
    THEN text
    ELSE IF \E i \in 2..Len(pkgs) : pkgs[i] = Head(pkgs)
         THEN AppendPackagesDedup(text, Tail(pkgs))
         ELSE AppendPackagesDedup(text \o LinePrefix \o Head(pkgs) \o LineSuffix,
                                  Tail(pkgs))

\* main.rs:425-428: for package in &packages { text = format!(...) }
RECURSIVE AppendPackages(_, _)
AppendPackages(text, pkgs) ==
    IF pkgs = << >>
    THEN text
    ELSE AppendPackages(text \o LinePrefix \o Head(pkgs) \o LineSuffix, Tail(pkgs))

\* to_home_manager_nix as it would be if it returned early, with no text, when
\* no package is left to list
to_home_manager_nix_early(pkgs) ==
    IF FilterNpm(pkgs) = << >>
    THEN << >>
    ELSE AppendPackages(Preamble, FilterNpm(pkgs)) \o BlockClose

\* main.rs:400-432
to_home_manager_nix(pkgs) ==
    AppendPackages(Preamble, FilterNpm(pkgs)) \o BlockClose

----------------------------------------------------------------------------
(* Git helpers, main.rs:383-397. *)

\* what the local path holds when <path>/.git does not exist
NotARepo == [kind |-> "none", url |-> << >>]

\* is_git_repo as it would be if it did not look at the path
is_git_repo_always(dotGitExists) == TRUE

\* main.rs:383-386: path.join(".git").exists()
is_git_repo(dotGitExists) == dotGitExists

\* main.rs:388-397.  Repository::open(path)? and repo.find_remote("origin")?
\* return the error; remote.url() is None for an origin whose URL git2 cannot
\* give as a string, and unwrap_or_default() turns None into "".
get_git_remote_url(o) ==
    CASE o.kind = "unreadable" -> [ok |-> FALSE, err |-> "GitError", val |-> << >>]
      [] o.kind = "noorigin"   -> [ok |-> FALSE, err |-> "NoOriginRemoteError", val |-> << >>]
      [] o.kind = "nourl"      -> [ok |-> TRUE, err |-> "none", val |-> << >>]
      [] o.kind = "url"        -> [ok |-> TRUE, err |-> "none", val |-> o.url]
      [] OTHER                 -> [ok |-> FALSE, err |-> "NotAGitRepoError", val |-> << >>]

\* CloneCmd as it would be with the URL left out of the command line
CloneCmdNoUrl(url) == CloneCmdPrefix

\* main.rs:298: format!("git clone {}", git_remote_url)
CloneCmd(url) == CloneCmdPrefix \o url

----------------------------------------------------------------------------
(* Inputs of a run. *)

Foo == << "f", "o", "o" >>
Bar == << "b", "a", "r" >>
Nodejs == << "n", "o", "d", "e", "j", "s" >>
Python3 == << "p", "y", "t", "h", "o", "n", "3" >>
NpmLeftPad == << "n", "p", "m", ":", "l", "e", "f", "t", "-", "p", "a", "d" >>
NpmCliTool == << "n", "p", "m", "-", "c", "l", "i", "-", "t", "o", "o", "l" >>
Pnpm == << "p", "n", "p", "m" >>
Np == << "n", "p" >>

\* package identifiers a plan can hold
Idents == { Foo, Bar, Nodejs, Python3, NpmLeftPad, NpmCliTool, Pnpm, Np }

RECURSIVE SeqsUpTo(_, _)
SeqsUpTo(S, n) ==
    IF n = 0
    THEN { << >> }
    ELSE LET shorter == SeqsUpTo(S, n - 1)
         IN  shorter \cup { Append(s, x) : s \in shorter, x \in S }

\* the PackageLists the renderer is applied to
PackageLists == SeqsUpTo(Idents, MaxPkgs)

\* the PackageLists of the provisioning runs
RunPackageLists ==
    { << >>, << Foo, NpmLeftPad, Bar >>, << Nodejs, NpmCliTool, Python3 >> }

UrlSsh ==
    << "g", "i", "t", "@", "e", "x", "a", "m", "p", "l", "e", ".", "c", "o", "m", ":",
       "o", "r", "g", "/", "a", "p", "p", ".", "g", "i", "t" >>
UrlHttps ==
    << "h", "t", "t", "p", "s", ":", "/", "/", "h", "/", "r", ".", "g", "i", "t" >>

Urls == { UrlSsh, UrlHttps }

\* what git2 can find at a path whose .git exists
Origins ==
    { [kind |-> "unreadable", url |-> << >>],
      [kind |-> "noorigin", url |-> << >>],
      [kind |-> "nourl", url |-> << >>] }
    \cup { [kind |-> "url", url |-> u] : u \in Urls }

----------------------------------------------------------------------------
(* The run: state and its bookkeeping. *)

NoFailure == [step |-> "none", cause |-> "none"]

\* one fallible operation as attempted: the call, the step it belongs to, its
\* path or command line, the byte length it declares or writes, its outcome
Op(name, step, data, len, ok, cause) ==
    [op |-> name, step |-> step, data |-> data, len |-> len, ok |-> ok,
     err |-> IF ok THEN "none" ELSE cause]

\* DropSession as it would be if the session were leaked (mem::forget)
DropSessionLeak(s) == s

\* Drop of the Session (and of its TcpStream) when main's scope is left, by
\* return or by unwinding: the connection is released.
DropSession(s) == IF s = "None" THEN "None" ELSE "Closed"
DropTcp(t) == IF t = "open" THEN "closed" ELSE t
DropChannels(cs) == [i \in 1..Len(cs) |-> [cs[i] EXCEPT !.state = "closed"]]

\* Panic as it would be if the failure were reported and the process still
\* exited with status 0
PanicExitsZero(step, cause) ==
    /\ pc' = "Failed"
    /\ failure' = [step |-> step, cause |-> cause]
    /\ exitCode' = << 0 >>
    /\ tcp' = DropTcp(tcp)
    /\ sess' = DropSession(sess)
    /\ channels' = DropChannels(channels)

\* .unwrap() on an Err (or a failed assert!): the thread panics, main's locals
\* are dropped while unwinding, the process exits with the panic status.
Panic(step, cause) ==
    /\ pc' = "Failed"
    /\ failure' = [step |-> step, cause |-> cause]
    /\ exitCode' = << 101 >>
    /\ tcp' = DropTcp(tcp)
    /\ sess' = DropSession(sess)
    /\ channels' = DropChannels(channels)

\* `?` on an Err in main: main returns the error, the process exits with 1.
ReturnErr(step, cause) ==
    /\ pc' = "Failed"
    /\ failure' = [step |-> step, cause |-> cause]
    /\ exitCode' = << 1 >>
    /\ tcp' = DropTcp(tcp)
    /\ sess' = DropSession(sess)
    /\ channels' = DropChannels(channels)

\* return Ok(()) from main: locals are dropped, the process exits with 0.
ReturnOk(reached) ==
    /\ pc' = "Done"
    /\ steps' = Append(reached, "Done")
    /\ exitCode' = << 0 >>
    /\ tcp' = DropTcp(tcp)
    /\ sess' = DropSession(sess)
    /\ channels' = DropChannels(channels)
    /\ UNCHANGED failure

inputs == << packages, planOk, isRepo, origin, keyFileExists >>

Init ==
    /\ pc = "Plan"
    /\ packages \in RunPackageLists
    /\ planOk \in BOOLEAN
    /\ isRepo \in BOOLEAN
    /\ origin \in (IF isRepo THEN Origins ELSE { NotARepo })
    /\ keyFileExists \in BOOLEAN
    /\ home_manager_config = << >>
    /\ private_key = << >>
    /\ git_remote_url = << >>
    /\ tcp = "none"
    /\ sess = "None"
    /\ channels = << >>
    /\ steps = << "Init" >>
    /\ log = << >>
    /\ failure = NoFailure
    /\ exitCode = << >>

----------------------------------------------------------------------------
(* The steps of the Devenv arm of main, main.rs:232-305. *)

\* the content of the private key file, when it exists
KeyFileContent == << "k", "e", "y", "\n" >>

OpenChannel(kind) ==
    Append(channels, [kind |-> kind, state |-> "open", exit |-> << >>])

\* the channel opened last moves to state st
LastChannel(st) == [channels EXCEPT ![Len(channels)].state = st]

\* the exit statuses a remote command can report
ExitStatuses == { 0, 1 }

\* the channel opened last is closed by the remote side, which reported the
\* command's exit status
LastChannelClosed(status) ==
    [channels EXCEPT ![Len(channels)].state = "closed",
                     ![Len(channels)].exit = << status >>]

\* main.rs:233: generate_build_plan(&path, env, &options)?
GeneratePlan ==
    /\ pc = "Plan"
    /\ log' = Append(log, Op("generate_build_plan", "ConfigRendered", << >>, 0,
                             planOk, "PlanError"))
    /\ IF planOk
       THEN /\ pc' = "Render"
            /\ UNCHANGED << tcp, sess, channels, failure, exitCode >>
       ELSE ReturnErr("ConfigRendered", "PlanError")
    /\ UNCHANGED << inputs, home_manager_config, private_key, git_remote_url,
                    steps >>

\* main.rs:235-240
RenderConfig ==
    /\ pc = "Render"
    /\ home_manager_config' = to_home_manager_nix(packages)
    /\ steps' = Append(steps, "ConfigRendered")
    /\ pc' = "Connect"
    /\ UNCHANGED << inputs, private_key, git_remote_url, tcp, sess, channels,
                    log, failure, exitCode >>

\* main.rs:242: TcpStream::connect(hostname+":22").unwrap()
TcpConnect ==
    /\ pc = "Connect"
    /\ \E ok \in BOOLEAN :
        /\ log' = Append(log, Op("tcp_connect", "Connected", << >>, 0, ok, "ConnectError"))
        /\ IF ok
           THEN /\ tcp' = "open"
                /\ pc' = "NewSession"
                /\ UNCHANGED << sess, channels, failure, exitCode >>
           ELSE Panic("Connected", "ConnectError")
    /\ UNCHANGED << inputs, home_manager_config, private_key, git_remote_url,
                    steps >>

\* main.rs:243-245: Session::new().unwrap(); sess.set_tcp_stream(tcp)
NewSession ==
    /\ pc = "NewSession"
    /\ sess' = "Disconnected"
    /\ pc' = "Handshake"
    /\ UNCHANGED << inputs, home_manager_config, private_key, git_remote_url,
                    tcp, channels, steps, log, failure, exitCode >>

\* Handshake as it would be if the upload came right after it, with the
\* authentication left out
HandshakeThenUpload ==
    /\ pc = "Handshake"
    /\ \E ok \in BOOLEAN :
        /\ log' = Append(log, Op("handshake", "Connected", << >>, 0, ok, "ConnectError"))
        /\ IF ok
           THEN /\ sess' = "Connected"
                /\ steps' = Append(steps, "Connected")
                /\ pc' = "ScpConfig"
                /\ UNCHANGED << tcp, channels, failure, exitCode >>
           ELSE /\ Panic("Connected", "ConnectError")
                /\ UNCHANGED steps
    /\ UNCHANGED << inputs, home_manager_config, private_key, git_remote_url >>

\* main.rs:246: sess.handshake().unwrap()
Handshake ==
    /\ pc = "Handshake"
    /\ \E ok \in BOOLEAN :
        /\ log' = Append(log, Op("handshake", "Connected", << >>, 0, ok, "ConnectError"))
        /\ IF ok
           THEN /\ sess' = "Connected"
                /\ steps' = Append(steps, "Connected")
                /\ pc' = "Auth"
                /\ UNCHANGED << tcp, channels, failure, exitCode >>
           ELSE /\ Panic("Connected", "ConnectError")
                /\ UNCHANGED steps
    /\ UNCHANGED << inputs, home_manager_config, private_key, git_remote_url >>

\* Authenticate as it would be with the result of userauth_pubkey_file
\* discarded and no assert!: the run goes on whatever the outcome
AuthenticateUnchecked ==
    /\ pc = "Auth"
    /\ \E accepted \in BOOLEAN :
        LET ok == keyFileExists /\ accepted
        IN  /\ log' = Append(log, Op("userauth", "Authenticated", << >>, 0, ok, "AuthError"))
            /\ sess' = IF ok THEN "Authenticated" ELSE sess
            /\ steps' = Append(steps, "Authenticated")
            /\ pc' = "ScpConfig"
            /\ UNCHANGED << tcp, channels, failure, exitCode >>
    /\ UNCHANGED << inputs, home_manager_config, private_key, git_remote_url >>

\* main.rs:249-252: sess.userauth_pubkey_file("root", None, key_path, None)
\* .unwrap(); assert!(sess.authenticated()).  The key file is read by the
\* library here: without it the authentication fails.
Authenticate ==
    /\ pc = "Auth"
    /\ \E accepted \in BOOLEAN :
        LET ok == keyFileExists /\ accepted
            authenticated == ok
        IN  /\ log' = Append(log, Op("userauth", "Authenticated", << >>, 0, ok, "AuthError"))
            /\ IF ~ok
               THEN /\ Panic("Authenticated", "AuthError")
                    /\ UNCHANGED steps
               ELSE IF ~authenticated
               THEN /\ Panic("Authenticated", "AssertionFailed")
                    /\ UNCHANGED steps
               ELSE /\ sess' = "Authenticated"
                    /\ steps' = Append(steps, "Authenticated")
                    /\ pc' = "ScpConfig"
                    /\ UNCHANGED << tcp, channels, failure, exitCode >>
    /\ UNCHANGED << inputs, home_manager_config, private_key, git_remote_url >>

\* ScpSend as it would be if the length declared counted a terminator byte
ScpSendOneMore(at, step, path, content, next) ==
    /\ pc = at
    /\ \E ok \in BOOLEAN :
        /\ log' = Append(log, Op("scp_send", step, path, Len(content) + 1, ok, "TransferError"))
        /\ IF ok
           THEN /\ channels' = OpenChannel("scp")
                /\ pc' = next
                /\ UNCHANGED << tcp, sess, failure, exitCode >>
           ELSE Panic(step, "TransferError")
    /\ UNCHANGED << inputs, home_manager_config, private_key, git_remote_url,
                    steps >>

\* sess.scp_send(path, 0o644, content.as_bytes().len() as u64, None).unwrap()
ScpSend(at, step, path, content, next) ==
    /\ pc = at
    /\ \E ok \in BOOLEAN :
        /\ log' = Append(log, Op("scp_send", step, path, Len(content), ok, "TransferError"))
        /\ IF ok
           THEN /\ channels' = OpenChannel("scp")
                /\ pc' = next
                /\ UNCHANGED << tcp, sess, failure, exitCode >>
           ELSE Panic(step, "TransferError")
    /\ UNCHANGED << inputs, home_manager_config, private_key, git_remote_url,
                    steps >>

\* f.write_all(content.as_bytes()).unwrap()
WriteAll(at, step, path, content, next) ==
    /\ pc = at
    /\ \E ok \in BOOLEAN :
        /\ log' = Append(log, Op("write_all", step, path, Len(content), ok, "TransferError"))
        /\ IF ok
           THEN /\ steps' = Append(steps, step)
                /\ pc' = next
                /\ UNCHANGED << tcp, sess, channels, failure, exitCode >>
           ELSE /\ Panic(step, "TransferError")
                /\ UNCHANGED steps
    /\ UNCHANGED << inputs, home_manager_config, private_key, git_remote_url >>

\* sess.channel_session().unwrap()
ChannelSession(at, step, next) ==
    /\ pc = at
    /\ \E ok \in BOOLEAN :
        /\ log' = Append(log, Op("channel_session", step, << >>, 0, ok, "ExecError"))
        /\ IF ok
           THEN /\ channels' = OpenChannel("exec")
                /\ pc' = next
                /\ UNCHANGED << tcp, sess, failure, exitCode >>
           ELSE Panic(step, "ExecError")
    /\ UNCHANGED << inputs, home_manager_config, private_key, git_remote_url,
                    steps >>

\* channel.exec(cmd).unwrap()
Exec(at, step, cmd, next) ==
    /\ pc = at
    /\ \E ok \in BOOLEAN :
        /\ log' = Append(log, Op("exec", step, cmd, 0, ok, "ExecError"))
        /\ IF ok
           THEN /\ channels' = LastChannel("running")
                /\ pc' = next
                /\ UNCHANGED << tcp, sess, failure, exitCode >>
           ELSE Panic(step, "ExecError")
    /\ UNCHANGED << inputs, home_manager_config, private_key, git_remote_url,
                    steps >>

\* channel.read_to_string(&mut s).unwrap(); print!("{}", s)
ReadToString(at, step, next) ==
    /\ pc = at
    /\ \E ok \in BOOLEAN :
        /\ log' = Append(log, Op("read_to_string", step, << >>, 0, ok, "ExecError"))
        /\ IF ok
           THEN /\ channels' = LastChannel("eof")
                /\ pc' = next
                /\ UNCHANGED << tcp, sess, failure, exitCode >>
           ELSE Panic(step, "ExecError")
    /\ UNCHANGED << inputs, home_manager_config, private_key, git_remote_url,
                    steps >>

\* WaitClose as it would be with the result of wait_close discarded
WaitCloseIgnored(at, step, next) ==
    /\ pc = at
    /\ \E ok \in BOOLEAN, status \in ExitStatuses :
        /\ log' = Append(log, Op("wait_close", step, << >>, 0, ok, "ExecError"))
        /\ channels' = LastChannelClosed(status)
        /\ steps' = Append(steps, step)
        /\ pc' = next
        /\ UNCHANGED << tcp, sess, failure, exitCode >>
    /\ UNCHANGED << inputs, home_manager_config, private_key, git_remote_url >>

\* WaitClose as it would be if the exit status were read after the close and
\* a non-zero status ended the run
WaitCloseChecksStatus(at, step, next) ==
    /\ pc = at
    /\ \E ok \in BOOLEAN, status \in ExitStatuses :
        /\ log' = Append(log, Op("wait_close", step, << >>, 0, ok, "ExecError"))
        /\ IF ok /\ status = 0
           THEN /\ channels' = LastChannelClosed(status)
                /\ steps' = Append(steps, step)
                /\ pc' = next
                /\ UNCHANGED << tcp, sess, failure, exitCode >>
           ELSE /\ Panic(step, "ExecError")
                /\ UNCHANGED steps
    /\ UNCHANGED << inputs, home_manager_config, private_key, git_remote_url >>

\* channel.read_to_string(&mut s) when the remote command never closes its
\* output: no timeout is set on the session, so the call never returns
ReadBlocks(at) ==
    /\ pc = at
    /\ pc' = "Blocked"
    /\ UNCHANGED << inputs, home_manager_config, private_key, git_remote_url,
                    tcp, sess, channels, steps, log, failure, exitCode >>

\* channel.wait_close().unwrap(): Ok once the remote side closed the channel.
\* The exit status the remote side reported is kept by the channel; the code
\* never calls channel.exit_status().
WaitClose(at, step, next) ==
    /\ pc = at
    /\ \E ok \in BOOLEAN, status \in ExitStatuses :
        /\ log' = Append(log, Op("wait_close", step, << >>, 0, ok, "ExecError"))
        /\ IF ok
           THEN /\ channels' = LastChannelClosed(status)
                /\ steps' = Append(steps, step)
                /\ pc' = next
                /\ UNCHANGED << tcp, sess, failure, exitCode >>
           ELSE /\ Panic(step, "ExecError")
                /\ UNCHANGED steps
    /\ UNCHANGED << inputs, home_manager_config, private_key, git_remote_url >>

\* main.rs:255
ScpSendConfig ==
    ScpSend("ScpConfig", "ConfigUploaded", ConfigPath, home_manager_config,
            "WriteConfig")

\* WriteConfig as it would be if the key upload came right after it
WriteConfigThenKey ==
    WriteAll("WriteConfig", "ConfigUploaded", ConfigPath, home_manager_config,
             "ReadKey")

\* main.rs:257-259
WriteConfig ==
    WriteAll("WriteConfig", "ConfigUploaded", ConfigPath, home_manager_config,
             "InstallChannel")

\* main.rs:261-262
InstallChannel == ChannelSession("InstallChannel", "InstallRan", "InstallExec")

\* InstallExec as it would be if wait_close came before the output is read
InstallExecThenWait ==
    Exec("InstallExec", "InstallRan", InstallCmd, "InstallWaitClose")

\* main.rs:263
InstallExec == Exec("InstallExec", "InstallRan", InstallCmd, "InstallRead")

\* main.rs:264-266
InstallRead == ReadToString("InstallRead", "InstallRan", "InstallWaitClose")

\* main.rs:265, the install command never terminates
InstallReadBlocks == ReadBlocks("InstallRead")

\* main.rs:267-268
InstallWaitClose == WaitClose("InstallWaitClose", "InstallRan", "ReadKey")

\* main.rs:271-274: File::open(&key_path).unwrap().read_to_string(..).unwrap()
ReadKey ==
    /\ pc = "ReadKey"
    /\ \E readable \in BOOLEAN :
        LET ok == keyFileExists /\ readable
        IN  /\ log' = Append(log, Op("read_key_file", "KeyUploaded", << >>, 0, ok,
                                     "KeyFileError"))
            /\ IF ok
               THEN /\ private_key' = KeyFileContent
                    /\ pc' = "ScpKey"
                    /\ UNCHANGED << tcp, sess, channels, failure, exitCode >>
               ELSE /\ Panic("KeyUploaded", "KeyFileError")
                    /\ UNCHANGED private_key
    /\ UNCHANGED << inputs, home_manager_config, git_remote_url, steps >>

\* main.rs:275
ScpSendKey == ScpSend("ScpKey", "KeyUploaded", KeyPath, private_key, "WriteKey")

\* main.rs:276-277
WriteKey == WriteAll("WriteKey", "KeyUploaded", KeyPath, private_key, "GitCheck")

\* main.rs:280-281: if !is_git_repo(path)
GitCheck ==
    /\ pc = "GitCheck"
    /\ IF ~is_git_repo(isRepo)
       THEN /\ steps' = Append(steps, "GitChecked")
            /\ pc' = "SkipClone"
       ELSE /\ pc' = "GetUrl"
            /\ UNCHANGED steps
    /\ UNCHANGED << inputs, home_manager_config, private_key, git_remote_url,
                    tcp, sess, channels, log, failure, exitCode >>

\* main.rs:282-288: the path is not a repository, return Ok(())
SkipClone ==
    /\ pc = "SkipClone"
    /\ ReturnOk(Append(steps, "SkippedClone"))
    /\ UNCHANGED << inputs, home_manager_config, private_key, git_remote_url,
                    log >>

\* main.rs:292-293: get_git_remote_url(&Path::new(&path)).unwrap()
GetRemoteUrl ==
    /\ pc = "GetUrl"
    /\ LET r == get_git_remote_url(origin)
       IN  /\ log' = Append(log, Op("get_git_remote_url", "GitChecked", r.val, 0,
                                     r.ok, r.err))
           /\ IF r.ok
              THEN /\ git_remote_url' = r.val
                   /\ steps' = Append(steps, "GitChecked")
                   /\ pc' = "CloneChannel"
                   /\ UNCHANGED << tcp, sess, channels, failure, exitCode >>
              ELSE /\ Panic("GitChecked", r.err)
                   /\ UNCHANGED << git_remote_url, steps >>
    /\ UNCHANGED << inputs, home_manager_config, private_key >>

\* main.rs:296-297
CloneChannel == ChannelSession("CloneChannel", "ClonedRemote", "CloneExec")

\* main.rs:298
CloneExec ==
    Exec("CloneExec", "ClonedRemote", CloneCmd(git_remote_url), "CloneRead")

\* main.rs:299-301
CloneRead == ReadToString("CloneRead", "ClonedRemote", "CloneWaitClose")

\* main.rs:300, the clone command never terminates
CloneReadBlocks == ReadBlocks("CloneRead")

\* main.rs:302-303
CloneWaitClose == WaitClose("CloneWaitClose", "ClonedRemote", "Finish")

\* main.rs:305, 361: the arm ends, main returns Ok(())
Finish ==
    /\ pc = "Finish"
    /\ ReturnOk(steps)
    /\ UNCHANGED << inputs, home_manager_config, private_key, git_remote_url,
                    log >>

Next ==
    \/ GeneratePlan
    \/ RenderConfig
    \/ TcpConnect
    \/ NewSession
    \/ Handshake
    \/ Authenticate
    \/ ScpSendConfig
    \/ WriteConfig
    \/ InstallChannel
    \/ InstallExec
    \/ InstallRead
    \/ InstallReadBlocks
    \/ InstallWaitClose
    \/ ReadKey
    \/ ScpSendKey
    \/ WriteKey
    \/ GitCheck
    \/ SkipClone
    \/ GetRemoteUrl
    \/ CloneChannel
    \/ CloneExec
    \/ CloneRead
    \/ CloneReadBlocks
    \/ CloneWaitClose
    \/ Finish

Spec == Init /\ [][Next]_vars

\* the steps that make no network call cannot block: each is taken once it is
\* the next statement of main
FairSpec ==
    /\ Spec
    /\ WF_vars(GeneratePlan)
    /\ WF_vars(RenderConfig)
    /\ WF_vars(NewSession)
    /\ WF_vars(GitCheck)
    /\ WF_vars(SkipClone)
    /\ WF_vars(GetRemoteUrl)
    /\ WF_vars(Finish)

----------------------------------------------------------------------------
(* The renderer alone: every PackageList up to MaxPkgs, rendered once. *)

RenderInit ==
    /\ pc = "Render"
    /\ packages \in PackageLists
    /\ planOk = TRUE
    /\ isRepo = FALSE
    /\ origin = NotARepo
    /\ keyFileExists = TRUE
    /\ home_manager_config = << >>
    /\ private_key = << >>
    /\ git_remote_url = << >>
    /\ tcp = "none"
    /\ sess = "None"
    /\ channels = << >>
    /\ steps = << "Init" >>
    /\ log = << >>
    /\ failure = NoFailure
    /\ exitCode = << >>

RenderNext == RenderConfig

RenderSpec == RenderInit /\ [][RenderNext]_vars

----------------------------------------------------------------------------
(* Observers used by the properties below. *)

Reached(s) == \E i \in DOMAIN steps : steps[i] = s

Terminated == pc \in { "Done", "Failed" }

IsPrefix(s, t) == Len(s) <= Len(t) /\ SubSeq(t, 1, Len(s)) = s

Last(s) == s[Len(s)]

\* the two complete step sequences of the orchestrator's state machine
OrderClone ==
    << "Init", "ConfigRendered", "Connected", "Authenticated", "ConfigUploaded",
       "InstallRan", "KeyUploaded", "GitChecked", "ClonedRemote", "Done" >>
OrderSkip ==
    << "Init", "ConfigRendered", "Connected", "Authenticated", "ConfigUploaded",
       "InstallRan", "KeyUploaded", "GitChecked", "SkippedClone", "Done" >>

\* state b directly follows state a in the state machine
Follows(a, b) ==
    \E o \in { OrderClone, OrderSkip } :
        \E k \in 1..(Len(o) - 1) : o[k] = a /\ o[k + 1] = b

\* operations that go over the network
NetworkOps ==
    { "tcp_connect", "handshake", "userauth", "scp_send", "write_all",
      "channel_session", "exec", "read_to_string", "wait_close" }

\* operations that upload a file or run a remote command
UploadOps == { "scp_send", "write_all" }
CommandOps == { "channel_session", "exec", "read_to_string", "wait_close" }

\* a command line that is a clone command, and its URL argument
IsCloneCmd(cmd) == IsPrefix(CloneCmdPrefix, cmd)
UrlArgument(cmd) == SubSeq(cmd, Len(CloneCmdPrefix) + 1, Len(cmd))

\* the places in the log where a clone command was issued
CloneExecs == { i \in DOMAIN log : log[i].op = "exec" /\ IsCloneCmd(log[i].data) }

\* the lines of a text, without their line ends, in order
RECURSIVE LinesFrom(_, _, _)
LinesFrom(t, start, ends) ==
    IF ends = { }
    THEN << >>
    ELSE LET e == CHOOSE i \in ends : \A j \in ends : i <= j
         IN  << SubSeq(t, start, e - 1) >> \o LinesFrom(t, e + 1, ends \ { e })

Lines(t) == LinesFrom(t, 1, { i \in 1..Len(t) : t[i] = "\n" })

\* the markers that open and close the package block
BlockOpenLine == SubSeq(PreambleL423, 1, Len(PreambleL423) - 1)
BlockCloseLine == << " ", " ", " ", " ", "]", ";" >>

\* the identifier a line of the package block names
IdentOfLine(l) ==
    IF /\ Len(l) > Len(LinePrefix)
       /\ SubSeq(l, 1, Len(LinePrefix)) = LinePrefix
       /\ l[Len(l)] = " "
    THEN SubSeq(l, Len(LinePrefix) + 1, Len(l) - 1)
    ELSE l

\* the package block of a rendered text: the identifiers on the lines between
\* the first opening marker and the first closing marker after it
PackageBlock(t) ==
    LET ls == Lines(t)
        opens == { i \in DOMAIN ls : ls[i] = BlockOpenLine }
    IN  IF opens = { }
        THEN [found |-> FALSE, idents |-> << >>]
        ELSE LET o == CHOOSE i \in opens : \A j \in opens : i <= j
                 closes == { i \in DOMAIN ls : i > o /\ ls[i] = BlockCloseLine }
             IN  IF closes = { }
                 THEN [found |-> FALSE, idents |-> << >>]
                 ELSE LET c == CHOOSE i \in closes : \A j \in closes : i <= j
                      IN  [found |-> TRUE,
                           idents |-> [k \in 1..(c - o - 1) |-> IdentOfLine(ls[o + k])]]

\* an identifier recognized as managed by the npm ecosystem
IsForeign(p) == Contains(p, NpmPattern)

\* a PackageList without its foreign identifiers, order and duplicates kept
RECURSIVE Surviving(_)
Surviving(pkgs) ==
    IF pkgs = << >>
    THEN << >>
    ELSE IF IsForeign(Head(pkgs))
         THEN Surviving(Tail(pkgs))
         ELSE << Head(pkgs) >> \o Surviving(Tail(pkgs))

----------------------------------------------------------------------------
(* Properties. *)

StepsInOrder == IsPrefix(steps, OrderClone) \/ IsPrefix(steps, OrderSkip)

InstallAfterConfigUpload ==
    \A i \in DOMAIN log :
        (log[i].op = "exec" /\ log[i].data = InstallCmd)
            => \E j \in 1..(i - 1) :
                   log[j].op = "write_all" /\ log[j].data = ConfigPath /\ log[j].ok

KeyUploadBeforeGitCheck ==
    /\ Reached("GitChecked")
           => \E j \in DOMAIN log :
                  log[j].op = "write_all" /\ log[j].data = KeyPath /\ log[j].ok
    /\ \A i \in DOMAIN log :
           log[i].op = "get_git_remote_url"
               => \E j \in 1..(i - 1) :
                      log[j].op = "write_all" /\ log[j].data = KeyPath /\ log[j].ok

\* an operation is attempted only for the state that directly follows the
\* last state reached
AttemptInOrder == (log' # log) => Follows(Last(steps), Last(log').step)

\* C1: the states of a run are reached only in the order Init, ConfigRendered,
\* Connected, Authenticated, ConfigUploaded, InstallRan, KeyUploaded,
\* GitChecked, then ClonedRemote or SkippedClone, then Done; every operation
\* attempted belongs to the state right after the last one reached; the
\* install command is executed only after the config upload succeeded, and
\* the key upload precedes the git check on both branches.
C1_StepOrder ==
    /\ [](StepsInOrder /\ InstallAfterConfigUpload /\ KeyUploadBeforeGitCheck)
    /\ [][AttemptInOrder]_vars

C1_Witness == pc = "Done" /\ steps = OrderClone

\* C2: when the run has terminated, by success or by the failure of any step,
\* no connection is left open: the TcpStream is not open, every channel is
\* closed, and a session that had been created is Closed.
C2_ClosedAtExit ==
    Terminated =>
        /\ tcp # "open"
        /\ sess \in { "None", "Closed" }
        /\ (\E i \in DOMAIN log : log[i].op = "handshake") => sess = "Closed"
        /\ (\E i \in DOMAIN log : log[i].op = "tcp_connect" /\ log[i].ok)
               => tcp = "closed"
        /\ \A i \in DOMAIN channels : channels[i].state = "closed"

C2_Witness ==
    /\ pc = "Failed"
    /\ failure.step = "InstallRan"
    /\ sess = "Closed"
    /\ tcp = "closed"
    /\ Len(channels) = 2

\* C3: if public-key authentication fails, the run is Failed at the
\* Authenticated transition with AuthError, no upload and no remote command
\* was attempted, and the session is closed.
C3_AuthFailure ==
    (\E i \in DOMAIN log : log[i].op = "userauth" /\ ~log[i].ok) =>
        /\ pc = "Failed"
        /\ failure = [step |-> "Authenticated", cause |-> "AuthError"]
        /\ ~Reached("Authenticated")
        /\ \A i \in DOMAIN log : log[i].op \notin (UploadOps \cup CommandOps)
        /\ sess = "Closed"
        /\ tcp = "closed"

C3_Witness ==
    /\ pc = "Failed"
    /\ keyFileExists
    /\ Last(log).op = "userauth"
    /\ ~Last(log).ok
    /\ sess = "Closed"

\* C4: if an operation of any step fails, it is the last operation of the
\* run, the run is Failed carrying that step's name and the operation's
\* cause, and the step's state is not reached; no failed operation is
\* followed by another operation.
C4_FailureStops ==
    \A i \in DOMAIN log :
        ~log[i].ok =>
            /\ i = Len(log)
            /\ pc = "Failed"
            /\ failure = [step |-> log[i].step, cause |-> log[i].err]
            /\ failure.cause # "none"
            /\ ~Reached(log[i].step)
            /\ exitCode # << >>

C4_Witness ==
    /\ pc = "Failed"
    /\ failure = [step |-> "ClonedRemote", cause |-> "ExecError"]
    /\ Last(log).op = "wait_close"
    /\ ~Last(log).ok

\* C5: when the local path has no repository metadata, no clone command is
\* ever issued, and once the uploads and the install have succeeded the run
\* cannot fail: it goes through GitChecked and SkippedClone to Done, with
\* exit code 0, and it does reach Done.
C5_SkipBranch ==
    /\ [](~isRepo =>
            /\ CloneExecs = { }
            /\ \A i \in DOMAIN log : log[i].step # "ClonedRemote"
            /\ ~Reached("ClonedRemote")
            /\ Reached("KeyUploaded") =>
                   /\ pc \in { "GitCheck", "SkipClone", "Done" }
                   /\ failure = NoFailure
            /\ pc = "Done" => (steps = OrderSkip /\ exitCode = << 0 >>))
    /\ (~isRepo /\ Reached("KeyUploaded")) ~> (pc = "Done" /\ Reached("SkippedClone"))

C5_Witness ==
    /\ ~isRepo
    /\ pc = "Done"
    /\ steps = OrderSkip
    /\ failure = NoFailure

\* C6: when the local path is a repository without an origin remote, or with
\* an origin that has no URL, the origin lookup does not succeed, the run
\* fails with NoOriginRemoteError, and no clone command is issued.
C6_NoOriginFails ==
    (isRepo /\ origin.kind \in { "noorigin", "nourl" }) =>
        /\ CloneExecs = { }
        /\ \A i \in DOMAIN log : log[i].step # "ClonedRemote"
        /\ \A i \in DOMAIN log :
               log[i].op = "get_git_remote_url" =>
                   /\ ~log[i].ok
                   /\ pc = "Failed"
                   /\ failure.cause = "NoOriginRemoteError"

\* C7: when the local path is a repository whose origin has URL u, every
\* command executed besides the install command is a clone command whose URL
\* argument is exactly u, it is issued only after the origin lookup of the
\* git check succeeded, at most one is issued, a run that reaches
\* ClonedRemote has issued exactly one, and a run that ends in Done has
\* reached ClonedRemote.
C7_CloneUrl ==
    (isRepo /\ origin.kind = "url") =>
        /\ \A i \in DOMAIN log :
               (log[i].op = "exec" /\ log[i].data # InstallCmd) => i \in CloneExecs
        /\ \A i \in CloneExecs :
               /\ UrlArgument(log[i].data) = origin.url
               /\ log[i].data = CloneCmdPrefix \o origin.url
               /\ Reached("GitChecked")
               /\ \E j \in 1..(i - 1) :
                      log[j].op = "get_git_remote_url" /\ log[j].ok
        /\ Cardinality(CloneExecs) <= 1
        /\ Reached("ClonedRemote") =>
               Cardinality({ i \in CloneExecs : log[i].ok }) = 1
        /\ pc = "Done" => (Reached("ClonedRemote") /\ ~Reached("SkippedClone"))

C7_Witness ==
    /\ pc = "Done"
    /\ origin = [kind |-> "url", url |-> UrlSsh]
    /\ Reached("ClonedRemote")
    /\ \E i \in CloneExecs : UrlArgument(log[i].data) = UrlSsh

\* C8: no identifier recognized as npm-managed is on a line of the package
\* block of the rendered configuration.
C8_NoForeignInBlock ==
    Reached("ConfigRendered") =>
        LET b == PackageBlock(home_manager_config)
        IN  /\ b.found
            /\ \A k \in DOMAIN b.idents :
                   /\ ~IsForeign(b.idents[k])
                   /\ \A j \in DOMAIN packages :
                          IsForeign(packages[j]) => b.idents[k] # packages[j]

C8_Witness ==
    /\ Reached("ConfigRendered")
    /\ packages = << Foo, NpmLeftPad, Bar >>
    /\ PackageBlock(home_manager_config).idents = << Foo, Bar >>

\* C9: the identifiers on the lines of the package block, in order, are the
\* input sequence with only the npm-managed identifiers removed: every other
\* identifier is there once per occurrence, on a line of its own, in the
\* input's order.
C9_BlockIsFilteredInput ==
    Reached("ConfigRendered") =>
        LET b == PackageBlock(home_manager_config)
        IN  /\ b.found
            /\ b.idents = Surviving(packages)

C9_Witness ==
    /\ Reached("ConfigRendered")
    /\ packages = << Bar, Pnpm, Bar >>
    /\ PackageBlock(home_manager_config).idents = << Bar, Bar >>

\* the content a transfer to a path carries
ContentFor(path) == IF path = ConfigPath THEN home_manager_config ELSE private_key

\* C11: for both transfers, the byte length declared by scp_send equals the
\* byte length of the content handed to write_all, which is the length of
\* the content itself; every write follows a successful declaration for the
\* same path, so no write happens with a length that differs.
C11_DeclaredLength ==
    /\ \A i \in DOMAIN log :
           log[i].op = "scp_send" => log[i].len = Len(ContentFor(log[i].data))
    /\ \A i \in DOMAIN log :
           log[i].op = "write_all" =>
               /\ i > 1
               /\ log[i - 1].op = "scp_send"
               /\ log[i - 1].ok
               /\ log[i - 1].data = log[i].data
               /\ log[i - 1].len = log[i].len
               /\ log[i].len = Len(ContentFor(log[i].data))

C11_Witness ==
    /\ \E i \in DOMAIN log :
           /\ log[i].op = "write_all"
           /\ log[i].data = KeyPath
           /\ log[i].ok
           /\ log[i].len = Len(KeyFileContent)
    /\ \E i \in DOMAIN log :
           /\ log[i].op = "write_all"
           /\ log[i].data = ConfigPath
           /\ log[i].ok
           /\ log[i].len = Len(to_home_manager_nix(packages))
           /\ log[i].len > Len(Preamble) + Len(BlockClose)

\* C12: when the private key file is missing, the run makes no network
\* operation at all.
C12_MissingKeyNoNetwork ==
    ~keyFileExists => \A i \in DOMAIN log : log[i].op \notin NetworkOps

\* C13: a run that ends in Failed exits with a non-zero code, and a run that
\* exits with code 0 did not fail.
C13_FailedExitsNonZero ==
    /\ pc = "Failed" => (Len(exitCode) = 1 /\ exitCode[1] # 0 /\ failure # NoFailure)
    /\ failure # NoFailure => (pc = "Failed" /\ exitCode # << 0 >>)
    /\ exitCode = << 0 >> => (pc = "Done" /\ failure = NoFailure)

C13_Witness ==
    /\ pc = "Failed"
    /\ exitCode = << 101 >>
    /\ failure = [step |-> "KeyUploaded", cause |-> "TransferError"]

\* how often a character occurs in a text
Count(t, c) == Cardinality({ i \in 1..Len(t) : t[i] = c })

\* C15: for the empty PackageList, and for one whose identifiers are all
\* filtered out, the rendered text is the preamble followed directly by the
\* closing of the block: the block is opened and closed with no line in
\* between, and the braces and brackets of the document are balanced.
C15_EmptyBlockComplete ==
    (Reached("ConfigRendered") /\ Surviving(packages) = << >>) =>
        LET b == PackageBlock(home_manager_config)
        IN  /\ home_manager_config = Preamble \o BlockClose
            /\ b.found
            /\ b.idents = << >>
            /\ Count(home_manager_config, "{") = Count(home_manager_config, "}")
            /\ Count(home_manager_config, "[") = Count(home_manager_config, "]")
            /\ Count(home_manager_config, "[") = 1

C15_Witness ==
    /\ Reached("ConfigRendered")
    /\ packages = << >>
    /\ PackageBlock(home_manager_config) = [found |-> TRUE, idents |-> << >>]

\* the order of the session states
Rank(s) ==
    CASE s = "None" -> 0
      [] s = "Disconnected" -> 1
      [] s = "Connected" -> 2
      [] s = "Authenticated" -> 3
      [] s = "Closed" -> 4

SessionMovesForward == (sess' # sess) => Rank(sess') > Rank(sess)

UsedOnlyAuthenticated ==
    (log' # log /\ Last(log').op \in (UploadOps \cup CommandOps))
        => (sess = "Authenticated" /\ sess' \in { "Authenticated", "Closed" })

\* C16: the session state only moves forward through Disconnected,
\* Connected, Authenticated, Closed, and every file transfer operation and
\* every remote command operation is made while the session is
\* Authenticated, never before and never after it is Closed.
C16_SessionForward ==
    /\ [](sess \in { "None", "Disconnected", "Connected", "Authenticated", "Closed" })
    /\ [][SessionMovesForward /\ UsedOnlyAuthenticated]_vars

C16_Witness ==
    /\ sess = "Closed"
    /\ pc = "Done"
    /\ \E i \in DOMAIN log : log[i].op = "exec" /\ log[i].step = "ClonedRemote" /\ log[i].ok
    /\ \E i \in DOMAIN log : log[i].op = "write_all" /\ log[i].ok

\* C18: for the install command and for the clone command, wait_close is
\* called only right after read_to_string of the same step returned Ok, that
\* is after the output was read to its end, and on a command that was
\* executed.
C18_DrainBeforeWait ==
    \A i \in DOMAIN log :
        log[i].op = "wait_close" =>
            /\ i > 2
            /\ log[i - 1].op = "read_to_string"
            /\ log[i - 1].ok
            /\ log[i - 1].step = log[i].step
            /\ log[i - 2].op = "exec"
            /\ log[i - 2].ok

C18_Witness ==
    /\ pc = "ReadKey"
    /\ Last(log).op = "wait_close"
    /\ Last(log).step = "InstallRan"
    /\ Last(log).ok

\* the channels of the session that are open
OpenChannels == { i \in DOMAIN channels : channels[i].state # "closed" }

\* C17: at every moment at most one channel is open on the session: the
\* channel of a step is finished before the next step opens its own.
C17_OneChannelAtATime == Cardinality(OpenChannels) <= 1

\* C19: a remote command execution always returns to the caller: the run is
\* never stuck, in every state that is not terminal it can take a step.
C19_AlwaysReturns == Terminated \/ ENABLED Next

\* the place in the log where wait_close of the install command returned Ok
InstallClosed ==
    { i \in DOMAIN log :
        log[i].op = "wait_close" /\ log[i].step = "InstallRan" /\ log[i].ok }

\* C20: once the channel of the install command has closed without a
\* transport error, InstallRan is reached and the run goes on with the key
\* file and its upload, whatever exit status the remote command reported:
\* the run does not fail at the install step and the next operation is the
\* reading of the key file.
C20_ExitStatusIgnored ==
    \A i \in InstallClosed :
        /\ Reached("InstallRan")
        /\ failure.step # "InstallRan"
        /\ channels[2].kind = "exec"
        /\ channels[2].exit \in { << s >> : s \in ExitStatuses }
        /\ i = Len(log) => pc = "ReadKey"
        /\ i < Len(log) => log[i + 1].op = "read_key_file"
        /\ pc = "ReadKey" => ENABLED ReadKey

C20_Witness ==
    /\ InstallClosed # { }
    /\ channels[2].exit = << 1 >>
    /\ Reached("KeyUploaded")
    /\ Reached("GitChecked")
    /\ failure = NoFailure

====
